---- MODULE Spec2Model ----
(***************************************************************************)
(* A model of matrix-client's session-and-event control core (src/app.rs): *)
(* App::start, the restore-or-login decision of App::auth, the listener    *)
(* tasks, the event handlers, the controller and the sync orchestration.   *)
(* One process run is modelled step by step; Restart models the process    *)
(* being started again on the session file the previous run left behind.   *)
(***************************************************************************)
EXTENDS Naturals, Integers, Sequences, FiniteSets, TLC

\* ---------------------------------------------------------------- bounds
\* Process runs modelled (the second run reads what the first one wrote).
MaxRuns == 2
\* Items each subscription stream yields before it ends.
MaxItems == 2
\* Items all the streams of one run yield together.
MaxEvents == 4
\* A channel capacity smaller than the number of events produced.
SmallCapacity == 1

\* mpsc::channel(1024) in App::start.
ChannelCapacity == 1024

\* ------------------------------------------------------------- data model
\* Access tokens the homeserver may hand out at login.
Tokens == {"tokA", "tokB"}

\* MatrixSession: SessionMeta {user_id, device_id} and tokens {access_token}.
MatrixSession == [user_id : {"@alice"}, device_id : {"DEV"}, access_token : Tokens]

NoRec == [user_id |-> "", device_id |-> "", access_token |-> ""]

\* Client::session(): None, AuthSession::Matrix(session) or another kind.
NoSession == [kind |-> "None", rec |-> NoRec]
AuthSessionMatrix(s) == [kind |-> "Matrix", rec |-> s]
AuthSessionOther == [kind |-> "Oidc", rec |-> NoRec]

\* The session file: absent, or its bytes as a sequence of YAML lines
\* <<key, value>>.
NoFile == << <<"", "absent">> >>

\* A serializer that leaves the access token out of the record.
to_string_without_token(s) ==
    << <<"user_id", s.user_id>>, <<"device_id", s.device_id>> >>

\* serde_yaml::to_string(&session): one "key: value" line per field, the
\* flattened meta first and the tokens after it.
to_string(s) ==
    << <<"user_id", s.user_id>>, <<"device_id", s.device_id>>,
       <<"access_token", s.access_token>> >>

FieldCount(bs, k) == Cardinality({i \in 1..Len(bs) : bs[i][1] = k})
FieldValue(bs, k) == bs[CHOOSE i \in 1..Len(bs) : bs[i][1] = k][2]

\* serde_yaml::from_slice::<MatrixSession>(bs): every required field must be
\* present exactly once; anything else is a parse error.
from_slice(bs) ==
    IF /\ bs # NoFile
       /\ \A k \in {"user_id", "device_id", "access_token"} : FieldCount(bs, k) = 1
    THEN [ok |-> TRUE,
          session |-> [user_id |-> FieldValue(bs, "user_id"),
                       device_id |-> FieldValue(bs, "device_id"),
                       access_token |-> FieldValue(bs, "access_token")]]
    ELSE [ok |-> FALSE, session |-> NoRec]

\* Session files that do not parse: an empty file, a record cut short.
CorruptFiles == { <<>>, << <<"user_id", "@alice">> >> }

\* What tokio::fs::write may leave behind when it fails: the old state (the
\* file could not be created) or a truncated, partly written file.
FailedWrites(old, bytes) ==
    {old} \cup {SubSeq(bytes, 1, n) : n \in 0..(Len(bytes) - 1)}


\* ------------------------------------------------------------------ state
VARIABLES
    pc,             \* position of the main task (run -> App::start)
    run,            \* number of the current process run
    file,           \* the session file at config.session_path
    fileAtStart,    \* the session file as the current run found it
    prevLogin,      \* the session the previous run's login wrote (NoRec: none)
    clientSession,  \* the Client's current session
    restoreCalls,   \* calls of restore_session in this run
    restoreResult,  \* what restore_session returned
    loginCalls,     \* calls of matrix_auth().login_username in this run
    loginResult,    \* outcome of the login call
    writeCalls,     \* calls of fs::write on the session file in this run
    writeResult,    \* outcome of fs::write
    authResult,     \* what App::auth returned to App::start
    capacity,       \* capacity of the event channel
    chan,           \* events pending in the channel, oldest first
    handlers,       \* whether the two event handlers are registered
    lst,            \* each listener task: unspawned, waiting, sending, done
    emitted,        \* items each producer has taken from its stream so far
    hpend,          \* the event handler the running sync is awaiting
    bg,             \* the background sync task
    ctrl,           \* the controller task
    received        \* how often the controller has received each event

authVars == <<run, file, fileAtStart, prevLogin, clientSession, restoreCalls,
              restoreResult, loginCalls, loginResult, writeCalls, writeResult,
              authResult>>

taskVars == <<chan, handlers, lst, emitted, hpend, bg, ctrl, received>>

vars == <<pc, authVars, capacity, taskVars>>

\* The listener tasks, by the Event variant each forwards:
\* verification_listener, sync_state_listener, room_list_listener.
Listeners == {"VerificationState", "SyncServiceState", "RoomDiff"}

\* The event handlers of register_event_handlers, by Event variant.
Handlers == {"SyncRoom", "VerificationRequest"}

Producers == Listeners \cup Handlers \cup {"FatalMatrixErr"}

\* Every event a run can produce: <<variant, number within its stream>>.
AllEvents ==
    ((Listeners \cup Handlers) \X (1..MaxItems)) \cup {<<"FatalMatrixErr", 1>>}

\* Capacities the channel is built with: below the number of events, and
\* the program's.
Capacities == {SmallCapacity, ChannelCapacity}

\* A run that returned an error from start, or panicked, has exited.
ProcessAlive == pc \notin {"failed", "panicked"}

NoTasks ==
    [chan |-> <<>>, handlers |-> FALSE, lst |-> [l \in Listeners |-> "unspawned"],
     emitted |-> [p \in Producers |-> 0], hpend |-> "none", bg |-> "unspawned",
     ctrl |-> "unspawned", received |-> [e \in AllEvents |-> 0]]

RestoreFailures == {"Ok(false)", "ErrRead", "ErrParse", "ErrRestore"}

\* Session files a process may find at its first start: none, a corrupt
\* one, or the record of an earlier login.
InitialFiles ==
    {NoFile} \cup CorruptFiles
    \cup {to_string(s) : s \in {m \in MatrixSession : m.access_token = "tokA"}}

Init ==
    /\ pc = "auth"
    /\ run = 1
    /\ file \in InitialFiles
    /\ fileAtStart = file
    /\ prevLogin = NoRec
    /\ clientSession = NoSession
    /\ restoreCalls = 0
    /\ restoreResult = "none"
    /\ loginCalls = 0
    /\ loginResult = "none"
    /\ writeCalls = 0
    /\ writeResult = "none"
    /\ authResult = "pending"
    /\ capacity \in Capacities
    /\ chan = NoTasks.chan
    /\ handlers = NoTasks.handlers
    /\ lst = NoTasks.lst
    /\ emitted = NoTasks.emitted
    /\ hpend = NoTasks.hpend
    /\ bg = NoTasks.bg
    /\ ctrl = NoTasks.ctrl
    /\ received = NoTasks.received

\* ------------------------------------------------------------- App::auth
\* restore_session removing a session file that does not parse.
restore_session_removing_corrupt ==
    /\ pc = "auth"
    /\ restoreCalls' = restoreCalls + 1
    /\ pc' = "auth_match"
    /\ IF file = NoFile
       THEN /\ restoreResult' = "Ok(false)"
            /\ UNCHANGED <<clientSession, file>>
       ELSE \E readOk \in BOOLEAN, accepted \in BOOLEAN :
            IF ~readOk
            THEN /\ restoreResult' = "ErrRead"
                 /\ UNCHANGED <<clientSession, file>>
            ELSE IF ~from_slice(file).ok
            THEN /\ restoreResult' = "ErrParse"
                 /\ file' = NoFile
                 /\ UNCHANGED clientSession
            ELSE IF ~accepted
            THEN /\ restoreResult' = "ErrRestore"
                 /\ UNCHANGED <<clientSession, file>>
            ELSE /\ restoreResult' = "Ok(true)"
                 /\ clientSession' = AuthSessionMatrix(from_slice(file).session)
                 /\ UNCHANGED file
    /\ UNCHANGED <<run, fileAtStart, prevLogin, loginCalls, loginResult,
                   writeCalls, writeResult, authResult, capacity, taskVars>>

\* restore_session writing the restored session back to the session file.
restore_session_persisting ==
    /\ pc = "auth"
    /\ restoreCalls' = restoreCalls + 1
    /\ pc' = "auth_match"
    /\ IF file = NoFile
       THEN /\ restoreResult' = "Ok(false)"
            /\ UNCHANGED <<clientSession, file, writeCalls>>
       ELSE \E readOk \in BOOLEAN, accepted \in BOOLEAN :
            IF ~readOk
            THEN /\ restoreResult' = "ErrRead"
                 /\ UNCHANGED <<clientSession, file, writeCalls>>
            ELSE IF ~from_slice(file).ok
            THEN /\ restoreResult' = "ErrParse"
                 /\ UNCHANGED <<clientSession, file, writeCalls>>
            ELSE IF ~accepted
            THEN /\ restoreResult' = "ErrRestore"
                 /\ UNCHANGED <<clientSession, file, writeCalls>>
            ELSE /\ restoreResult' = "Ok(true)"
                 /\ clientSession' = AuthSessionMatrix(from_slice(file).session)
                 /\ file' = to_string(from_slice(file).session)
                 /\ writeCalls' = writeCalls + 1
    /\ UNCHANGED <<run, fileAtStart, prevLogin, loginCalls, loginResult,
                   writeResult, authResult, capacity, taskVars>>

\* App::restore_session, called first thing by App::auth: Ok(false) when
\* the file is absent; otherwise read, parse and hand the session to the
\* client, any of which may fail. fs::read and Client::restore_session are
\* collaborators: their failure is the environment's choice.
restore_session ==
    /\ pc = "auth"
    /\ restoreCalls' = restoreCalls + 1
    /\ pc' = "auth_match"
    /\ IF file = NoFile
       THEN /\ restoreResult' = "Ok(false)"
            /\ UNCHANGED clientSession
       ELSE \E readOk \in BOOLEAN, accepted \in BOOLEAN :
            IF ~readOk
            THEN /\ restoreResult' = "ErrRead"
                 /\ UNCHANGED clientSession
            ELSE IF ~from_slice(file).ok
            THEN /\ restoreResult' = "ErrParse"
                 /\ UNCHANGED clientSession
            ELSE IF ~accepted
            THEN /\ restoreResult' = "ErrRestore"
                 /\ UNCHANGED clientSession
            ELSE /\ restoreResult' = "Ok(true)"
                 /\ clientSession' = AuthSessionMatrix(from_slice(file).session)
    /\ UNCHANGED <<run, file, fileAtStart, prevLogin, loginCalls, loginResult,
                   writeCalls, writeResult, authResult, capacity, taskVars>>

\* auth without the early return: login runs after a successful restore too.
auth_always_login ==
    /\ pc = "auth_match"
    /\ pc' = "login"
    /\ UNCHANGED <<run, file, fileAtStart, prevLogin, clientSession, restoreCalls,
                   restoreResult, loginCalls, loginResult, writeCalls, writeResult,
                   authResult, capacity, taskVars>>

\* auth with `self.restore_session().await?`: a restore error is returned.
auth_propagating_restore_error ==
    /\ pc = "auth_match"
    /\ IF restoreResult = "Ok(true)"
       THEN /\ authResult' = "Ok"
            /\ pc' = "auth_return"
       ELSE IF restoreResult = "Ok(false)"
       THEN /\ pc' = "login"
            /\ UNCHANGED authResult
       ELSE /\ authResult' = restoreResult
            /\ pc' = "auth_return"
    /\ UNCHANGED <<run, file, fileAtStart, prevLogin, clientSession, restoreCalls,
                   restoreResult, loginCalls, loginResult, writeCalls, writeResult,
                   capacity, taskVars>>

\* The match in App::auth: Ok(true) returns Ok(()); Ok(false) and Err(_)
\* are logged and fall through to self.login().
auth ==
    /\ pc = "auth_match"
    /\ IF restoreResult = "Ok(true)"
       THEN /\ authResult' = "Ok"
            /\ pc' = "auth_return"
       ELSE /\ pc' = "login"
            /\ UNCHANGED authResult
    /\ UNCHANGED <<run, file, fileAtStart, prevLogin, clientSession, restoreCalls,
                   restoreResult, loginCalls, loginResult, writeCalls, writeResult,
                   capacity, taskVars>>

\* The login call retried once after a failure.
login_username_retrying ==
    /\ pc = "login"
    /\ loginCalls' = loginCalls + 1
    /\ \/ /\ loginResult' = "err"
          /\ IF loginCalls = 0
             THEN /\ pc' = "login"
                  /\ UNCHANGED authResult
             ELSE /\ authResult' = "ErrLogin"
                  /\ pc' = "auth_return"
          /\ UNCHANGED clientSession
       \/ /\ loginResult' = "ok"
          /\ clientSession' \in {NoSession, AuthSessionOther}
                                  \cup {AuthSessionMatrix(s) : s \in MatrixSession}
          /\ pc' = "login_session"
          /\ UNCHANGED authResult
    /\ UNCHANGED <<run, file, fileAtStart, prevLogin, restoreCalls, restoreResult,
                   writeCalls, writeResult, capacity, taskVars>>

\* App::login, the login call: login_username(..).await.context("matrix
\* auth")?. On success the client holds a session whose kind and token the
\* homeserver decides.
login_username ==
    /\ pc = "login"
    /\ loginCalls' = loginCalls + 1
    /\ \/ /\ loginResult' = "err"
          /\ authResult' = "ErrLogin"
          /\ pc' = "auth_return"
          /\ UNCHANGED clientSession
       \/ /\ loginResult' = "ok"
          /\ clientSession' \in {NoSession, AuthSessionOther}
                                  \cup {AuthSessionMatrix(s) : s \in MatrixSession}
          /\ pc' = "login_session"
          /\ UNCHANGED authResult
    /\ UNCHANGED <<run, file, fileAtStart, prevLogin, restoreCalls, restoreResult,
                   writeCalls, writeResult, capacity, taskVars>>

\* login accepting a session of any kind.
login_session_any_kind ==
    /\ pc = "login_session"
    /\ IF clientSession.kind = "None"
       THEN /\ authResult' = "ErrNoSession"
            /\ pc' = "auth_return"
       ELSE /\ pc' = "login_write"
            /\ UNCHANGED authResult
    /\ UNCHANGED <<run, file, fileAtStart, prevLogin, clientSession, restoreCalls,
                   restoreResult, loginCalls, loginResult, writeCalls, writeResult,
                   capacity, taskVars>>

\* App::login, client.session().context("no session after login")? and the
\* match on its kind: anything but AuthSession::Matrix bails.
login_session ==
    /\ pc = "login_session"
    /\ IF clientSession.kind = "None"
       THEN /\ authResult' = "ErrNoSession"
            /\ pc' = "auth_return"
       ELSE IF clientSession.kind # "Matrix"
       THEN /\ authResult' = "ErrKind"
            /\ pc' = "auth_return"
       ELSE /\ pc' = "login_write"
            /\ UNCHANGED authResult
    /\ UNCHANGED <<run, file, fileAtStart, prevLogin, clientSession, restoreCalls,
                   restoreResult, loginCalls, loginResult, writeCalls, writeResult,
                   capacity, taskVars>>

\* login ignoring a failed write of the session file.
login_write_ignoring_failure ==
    /\ pc = "login_write"
    /\ writeCalls' = writeCalls + 1
    /\ pc' = "login_todo"
    /\ \/ /\ writeResult' = "ok"
          /\ file' = to_string(clientSession.rec)
       \/ /\ writeResult' = "err"
          /\ file' \in FailedWrites(file, to_string(clientSession.rec))
    /\ UNCHANGED <<run, fileAtStart, prevLogin, clientSession, restoreCalls,
                   restoreResult, loginCalls, loginResult, authResult, capacity,
                   taskVars>>

\* App::login, the Matrix arm: serialize the session and fs::write it to
\* the session path, .context("write session")?.
login_write ==
    /\ pc = "login_write"
    /\ writeCalls' = writeCalls + 1
    /\ \/ /\ writeResult' = "ok"
          /\ file' = to_string(clientSession.rec)
          /\ pc' = "login_todo"
          /\ UNCHANGED authResult
       \/ /\ writeResult' = "err"
          /\ file' \in FailedWrites(file, to_string(clientSession.rec))
          /\ authResult' = "ErrWrite"
          /\ pc' = "auth_return"
    /\ UNCHANGED <<run, fileAtStart, prevLogin, clientSession, restoreCalls,
                   restoreResult, loginCalls, loginResult, capacity, taskVars>>

\* App::login, its last statement: todo!() panics the task that runs
\* App::start; main's jh.await? then ends the process.
login_todo ==
    /\ pc = "login_todo"
    /\ authResult' = "Panic"
    /\ pc' = "panicked"
    /\ UNCHANGED <<run, file, fileAtStart, prevLogin, clientSession, restoreCalls,
                   restoreResult, loginCalls, loginResult, writeCalls, writeResult,
                   capacity, taskVars>>

\* A start that goes on whatever auth returned.
start_auth_ignoring_error ==
    /\ pc = "auth_return"
    /\ pc' = "register"
    /\ UNCHANGED <<authVars, capacity, taskVars>>

\* App::start, app.auth().await.context("auth")?: an error ends start (and
\* with it the process); otherwise start goes on to the event handlers.
start_auth ==
    /\ pc = "auth_return"
    /\ pc' = IF authResult = "Ok" THEN "register" ELSE "failed"
    /\ UNCHANGED <<authVars, capacity, taskVars>>

\* ------------------------------------------------------------ App::start
\* register_event_handlers: one handler per event type, each owning a
\* clone of tx, added to the client.
register_event_handlers ==
    /\ pc = "register"
    /\ handlers' = TRUE
    /\ pc' = "spawn_verification"
    /\ UNCHANGED <<authVars, capacity, chan, lst, emitted, hpend, bg, ctrl, received>>

\* tokio::spawn(app.clone().verification_listener())
spawn_verification_listener ==
    /\ pc = "spawn_verification"
    /\ lst' = [lst EXCEPT !["VerificationState"] = "waiting"]
    /\ pc' = "spawn_controller"
    /\ UNCHANGED <<authVars, capacity, chan, handlers, emitted, hpend, bg, ctrl, received>>

\* A start that goes on to setup_sync without spawning the controller.
spawn_controller_forgotten ==
    /\ pc = "spawn_controller"
    /\ pc' = "build_sync"
    /\ UNCHANGED <<authVars, capacity, taskVars>>

\* tokio::spawn(app.clone().controller(rx))
spawn_controller ==
    /\ pc = "spawn_controller"
    /\ ctrl' = "running"
    /\ pc' = "build_sync"
    /\ UNCHANGED <<authVars, capacity, chan, handlers, lst, emitted, hpend, bg, received>>

\* `?` on an error in App::setup_sync: start returns the error, run() and
\* main return it, and the process exits, its tasks and channel with it.
ExitWithError ==
    /\ pc' = "failed"
    /\ chan' = NoTasks.chan
    /\ handlers' = NoTasks.handlers
    /\ lst' = NoTasks.lst
    /\ emitted' = NoTasks.emitted
    /\ hpend' = NoTasks.hpend
    /\ bg' = NoTasks.bg
    /\ ctrl' = NoTasks.ctrl
    /\ received' = NoTasks.received

\* ------------------------------------------------------- App::setup_sync
\* A build whose failure is not returned: setup_sync goes on without it.
build_sync_service_swallowing_error ==
    /\ pc = "build_sync"
    /\ pc' = "spawn_sync_state"
    /\ UNCHANGED <<authVars, capacity, taskVars>>

\* SyncService::builder(..).build().await.context("build sync service")?
build_sync_service ==
    /\ pc = "build_sync"
    /\ \/ pc' = "spawn_sync_state" /\ UNCHANGED taskVars
       \/ ExitWithError
    /\ UNCHANGED <<authVars, capacity>>

\* tokio::spawn(self.clone().sync_state_listener(state))
spawn_sync_state_listener ==
    /\ pc = "spawn_sync_state"
    /\ lst' = [lst EXCEPT !["SyncServiceState"] = "waiting"]
    /\ pc' = "all_rooms"
    /\ UNCHANGED <<authVars, capacity, chan, handlers, emitted, hpend, bg, ctrl, received>>

\* room_list_service.all_rooms().await.context("get all rooms listener")?
all_rooms ==
    /\ pc = "all_rooms"
    /\ \/ pc' = "spawn_room_list" /\ UNCHANGED taskVars
       \/ ExitWithError
    /\ UNCHANGED <<authVars, capacity>>

\* tokio::spawn(self.clone().room_list_listener(all_rooms))
spawn_room_list_listener ==
    /\ pc = "spawn_room_list"
    /\ lst' = [lst EXCEPT !["RoomDiff"] = "waiting"]
    /\ pc' = "start_service"
    /\ UNCHANGED <<authVars, capacity, chan, handlers, emitted, hpend, bg, ctrl, received>>

\* A setup that goes from the service's start straight to the background
\* loop, without the initial sync.
sync_service_start_skipping_sync_once ==
    /\ pc = "start_service"
    /\ pc' = "spawn_bg"
    /\ UNCHANGED <<authVars, capacity, taskVars>>

\* sync_service.start().await
sync_service_start ==
    /\ pc = "start_service"
    /\ pc' = "sync_once"
    /\ UNCHANGED <<authVars, capacity, taskVars>>

\* client.sync_once(settings).await.context("first client sync")?: it
\* returns once the handler it is awaiting has returned.
sync_once ==
    /\ pc = "sync_once"
    /\ hpend = "none"
    /\ \/ pc' = "spawn_bg" /\ UNCHANGED taskVars
       \/ ExitWithError
    /\ UNCHANGED <<authVars, capacity>>

\* tokio::spawn(async move { sync.client.sync(settings).await .. }), then
\* Ok(()), and App::start returns Ok(app): run() holds app and pends.
spawn_sync ==
    /\ pc = "spawn_bg"
    /\ bg' = "running"
    /\ pc' = "started"
    /\ UNCHANGED <<authVars, capacity, chan, handlers, lst, emitted, hpend, ctrl, received>>

\* ----------------------------------------------------------------- tasks
\* Live mpsc::Sender handles: start's app (held by run() once start
\* returned), one per registered handler, one per running listener, the
\* controller's own App clone, the background sync task's.
Senders ==
    (IF ProcessAlive THEN 1 ELSE 0)
    + (IF handlers THEN Cardinality(Handlers) ELSE 0)
    + Cardinality({l \in Listeners : lst[l] \in {"waiting", "sending"}})
    + (IF ctrl = "running" THEN 1 ELSE 0)
    + (IF bg \in {"running", "sending"} THEN 1 ELSE 0)

\* The Receiver lives in start until the controller is spawned and in the
\* controller from then on; it is dropped when the controller returns.
RxAlive == ctrl # "exited"

\* A channel that accepts one event more than its capacity.
HasRoomOffByOne == Len(chan) <= capacity

\* mpsc::channel(capacity): a send completes only while fewer than capacity
\* events are pending.
HasRoom == Len(chan) < capacity

\* Items the streams of this run have yielded so far.
RECURSIVE SumOver(_, _)
SumOver(f, S) ==
    IF S = {} THEN 0
    ELSE LET x == CHOOSE y \in S : TRUE IN f[x] + SumOver(f, S \ {x})

TotalEmitted == SumOver(emitted, Producers)

\* Whether a stream that has yielded n items has another one to yield.
HasNext(n) == n < MaxItems /\ TotalEmitted < MaxEvents

\* try_send in place of send: on a full channel the event is dropped.
TrySendDropping(ev, sent, blocked, closed) ==
    IF ~RxAlive THEN [chan |-> chan, to |-> closed]
    ELSE IF HasRoom THEN [chan |-> Append(chan, ev), to |-> sent]
    ELSE [chan |-> chan, to |-> sent]

\* A send whose error is ignored: the task goes on as if the event was sent.
TrySendIgnoringClosed(ev, sent, blocked, closed) ==
    IF ~RxAlive THEN [chan |-> chan, to |-> sent]
    ELSE IF HasRoom THEN [chan |-> Append(chan, ev), to |-> sent]
    ELSE [chan |-> chan, to |-> blocked]

\* tx.send(ev).await by a task with nothing else to do: Err at once when
\* the receiver is gone; the event is queued at once when the channel has
\* room; otherwise the task stays suspended in send.
\* `sent`, `blocked`, `closed`: the state the task is left in.
TrySend(ev, sent, blocked, closed) ==
    IF ~RxAlive THEN [chan |-> chan, to |-> closed]
    ELSE IF HasRoom THEN [chan |-> Append(chan, ev), to |-> sent]
    ELSE [chan |-> chan, to |-> blocked]

\* tx.send(ev).await resumed: it completes when the channel has room, and
\* with Err when the receiver is gone.
ResumeSend(ev, sent, closed) ==
    IF ~RxAlive THEN [chan |-> chan, to |-> closed]
    ELSE [chan |-> Append(chan, ev), to |-> sent]

CanResume == ~RxAlive \/ HasRoom

\* A listener's `while let Some(item) = stream.next().await`: the stream
\* ends, and the task with it, or yields its next item, which the listener
\* wraps and sends, `break`ing when the send fails.
ListenerNext(l) ==
    /\ ProcessAlive
    /\ lst[l] = "waiting"
    /\ IF HasNext(emitted[l])
       THEN LET r == TrySend(<<l, emitted[l] + 1>>, "waiting", "sending", "done")
            IN  /\ emitted' = [emitted EXCEPT ![l] = @ + 1]
                /\ chan' = r.chan
                /\ lst' = [lst EXCEPT ![l] = r.to]
       ELSE /\ lst' = [lst EXCEPT ![l] = "done"]
            /\ UNCHANGED <<emitted, chan>>
    /\ UNCHANGED <<pc, authVars, capacity, handlers, hpend, bg, ctrl, received>>

\* A listener suspended in `self.tx.send(ev).await` on a full channel.
ListenerSend(l) ==
    /\ ProcessAlive
    /\ lst[l] = "sending"
    /\ CanResume
    /\ LET r == ResumeSend(<<l, emitted[l]>>, "waiting", "done")
       IN  /\ chan' = r.chan
           /\ lst' = [lst EXCEPT ![l] = r.to]
    /\ UNCHANGED <<pc, authVars, capacity, handlers, emitted, hpend, bg, ctrl, received>>

verification_listener ==
    ListenerNext("VerificationState") \/ ListenerSend("VerificationState")

sync_state_listener ==
    ListenerNext("SyncServiceState") \/ ListenerSend("SyncServiceState")

room_list_listener ==
    ListenerNext("RoomDiff") \/ ListenerSend("RoomDiff")

\* The sync in progress: sync_once in setup_sync, then the background task.
SyncRunning == pc = "sync_once" \/ bg = "running"

\* During a sync the client calls a registered handler with an event of
\* its type and awaits it: `if let Err(err) = tx.send(ev).await { warn! }`.
event_handler ==
    /\ ProcessAlive
    /\ handlers
    /\ \/ /\ SyncRunning
          /\ hpend = "none"
          /\ \E h \in Handlers :
              LET r == TrySend(<<h, emitted[h] + 1>>, "none", h, "none")
              IN  /\ HasNext(emitted[h])
                  /\ emitted' = [emitted EXCEPT ![h] = @ + 1]
                  /\ chan' = r.chan
                  /\ hpend' = r.to
       \/ /\ hpend # "none"
          /\ CanResume
          /\ LET r == ResumeSend(<<hpend, emitted[hpend]>>, "none", "none")
             IN  /\ chan' = r.chan
                 /\ hpend' = r.to
          /\ UNCHANGED emitted
    /\ UNCHANGED <<pc, authVars, capacity, handlers, lst, bg, ctrl, received>>

\* A background task that starts the sync again after reporting its error.
background_sync_restarting ==
    /\ ProcessAlive
    /\ \/ /\ bg = "running"
          /\ hpend = "none"
          /\ TotalEmitted < MaxEvents
          /\ LET r == TrySend(<<"FatalMatrixErr", 1>>, "running", "sending", "running")
             IN  /\ chan' = r.chan
                 /\ bg' = r.to
          /\ emitted' = [emitted EXCEPT !["FatalMatrixErr"] = @ + 1]
       \/ /\ bg = "sending"
          /\ CanResume
          /\ LET r == ResumeSend(<<"FatalMatrixErr", 1>>, "running", "running")
             IN  /\ chan' = r.chan
                 /\ bg' = r.to
          /\ UNCHANGED emitted
    /\ UNCHANGED <<pc, authVars, capacity, handlers, lst, hpend, ctrl, received>>

\* The background task: client.sync(settings) runs until it fails, then
\* `let _ = sync.tx.send(Event::FatalMatrixErr(err)).await`.
background_sync ==
    /\ ProcessAlive
    /\ \/ /\ bg = "running"
          /\ hpend = "none"
          /\ TotalEmitted < MaxEvents
          /\ LET r == TrySend(<<"FatalMatrixErr", 1>>, "done", "sending", "done")
             IN  /\ chan' = r.chan
                 /\ bg' = r.to
          /\ emitted' = [emitted EXCEPT !["FatalMatrixErr"] = @ + 1]
       \/ /\ bg = "sending"
          /\ CanResume
          /\ LET r == ResumeSend(<<"FatalMatrixErr", 1>>, "done", "done")
             IN  /\ chan' = r.chan
                 /\ bg' = r.to
          /\ UNCHANGED emitted
    /\ UNCHANGED <<pc, authVars, capacity, handlers, lst, hpend, ctrl, received>>

\* A controller that takes the newest pending event instead of the oldest.
controller_lifo ==
    /\ ProcessAlive
    /\ ctrl = "running"
    /\ IF chan # <<>>
       THEN /\ received' = [received EXCEPT ![chan[Len(chan)]] = @ + 1]
            /\ chan' = SubSeq(chan, 1, Len(chan) - 1)
            /\ UNCHANGED ctrl
       ELSE /\ Senders = 0
            /\ ctrl' = "exited"
            /\ UNCHANGED <<chan, received>>
    /\ UNCHANGED <<pc, authVars, capacity, handlers, lst, emitted, hpend, bg>>

\* A controller that returns as soon as it finds nothing pending.
controller_exiting_when_idle ==
    /\ ProcessAlive
    /\ ctrl = "running"
    /\ IF chan # <<>>
       THEN /\ received' = [received EXCEPT ![Head(chan)] = @ + 1]
            /\ chan' = Tail(chan)
            /\ UNCHANGED ctrl
       ELSE /\ ctrl' = "exited"
            /\ UNCHANGED <<chan, received>>
    /\ UNCHANGED <<pc, authVars, capacity, handlers, lst, emitted, hpend, bg>>

\* App::controller: `while let Some(ev) = rx.recv().await { info!(..) }`.
\* recv yields the oldest pending event; it yields None, ending the loop,
\* when the channel is empty and no sender is left.
controller ==
    /\ ProcessAlive
    /\ ctrl = "running"
    /\ IF chan # <<>>
       THEN /\ received' = [received EXCEPT ![Head(chan)] = @ + 1]
            /\ chan' = Tail(chan)
            /\ UNCHANGED ctrl
       ELSE /\ Senders = 0
            /\ ctrl' = "exited"
            /\ UNCHANGED <<chan, received>>
    /\ UNCHANGED <<pc, authVars, capacity, handlers, lst, emitted, hpend, bg>>

\* The channel's consuming end closed under the running producers: the
\* Receiver is dropped, and the events still pending with it.
receiver_dropped ==
    /\ ProcessAlive
    /\ ctrl = "running"
    /\ ctrl' = "exited"
    /\ chan' = <<>>
    /\ UNCHANGED <<pc, authVars, capacity, handlers, lst, emitted, hpend, bg, received>>

\* The process is started again after it ended: a new client, the session
\* file as the previous run left it.
Restart ==
    /\ pc \in {"failed", "panicked"}
    /\ run < MaxRuns
    /\ run' = run + 1
    /\ pc' = "auth"
    /\ fileAtStart' = file
    /\ prevLogin' = IF writeResult = "ok" THEN clientSession.rec ELSE NoRec
    /\ clientSession' = NoSession
    /\ restoreCalls' = 0
    /\ restoreResult' = "none"
    /\ loginCalls' = 0
    /\ loginResult' = "none"
    /\ writeCalls' = 0
    /\ writeResult' = "none"
    /\ authResult' = "pending"
    /\ chan' = NoTasks.chan
    /\ handlers' = NoTasks.handlers
    /\ lst' = NoTasks.lst
    /\ emitted' = NoTasks.emitted
    /\ hpend' = NoTasks.hpend
    /\ bg' = NoTasks.bg
    /\ ctrl' = NoTasks.ctrl
    /\ received' = NoTasks.received
    /\ UNCHANGED <<file, capacity>>

Next ==
    \/ restore_session
    \/ auth
    \/ login_username
    \/ login_session
    \/ login_write
    \/ login_todo
    \/ start_auth
    \/ register_event_handlers
    \/ spawn_verification_listener
    \/ spawn_controller
    \/ build_sync_service
    \/ spawn_sync_state_listener
    \/ all_rooms
    \/ spawn_room_list_listener
    \/ sync_service_start
    \/ sync_once
    \/ spawn_sync
    \/ verification_listener
    \/ sync_state_listener
    \/ room_list_listener
    \/ event_handler
    \/ background_sync
    \/ controller

\* One process run, from App::start to its end or to the running client.
Spec == Init /\ [][Next]_vars

\* One process run in which the channel's consumer may be closed.
NextClosed ==
    \/ Next
    \/ receiver_dropped

SpecClosed == Init /\ [][NextClosed]_vars

\* A task that is ready to run: the controller with an event pending, a
\* send that was suspended on the full channel and can complete, and
\* App::start at the spawn of the controller, which awaits nothing.
ReadyTask ==
    \/ controller
    \/ spawn_controller
    \/ \E l \in Listeners : ListenerSend(l)
    \/ event_handler /\ hpend # "none"
    \/ background_sync /\ bg = "sending"

\* The tokio runtime does not idle while a task is ready: it runs one.
Fairness == WF_vars(ReadyTask)

SpecFair == Spec /\ Fairness

\* The session manager over successive process runs: App::auth as
\* App::start calls it, and the process started again after it ended.
NextSessions ==
    \/ restore_session
    \/ auth
    \/ login_username
    \/ login_session
    \/ login_write
    \/ login_todo
    \/ start_auth
    \/ Restart

SpecSessions == Init /\ [][NextSessions]_vars


\* ----------------------------------------------------------------- claims
\* App::auth has returned to App::start, or panicked.
AuthDone == authResult # "pending"

\* The run found a session file that does not parse.
CorruptAtStart == fileAtStart # NoFile /\ ~from_slice(fileAtStart).ok

\* C1: when the session file exists, parses and the client accepts the
\* restored session (restore_session returned Ok(true)), auth returns Ok
\* and the login call is never made in that run.
C1_RestoreSkipsLogin ==
    restoreResult = "Ok(true)" =>
        /\ from_slice(fileAtStart).ok
        /\ loginCalls = 0
        /\ pc # "auth_match" => authResult = "Ok"

C1_Witness ==
    /\ restoreResult = "Ok(true)"
    /\ authResult = "Ok"
    /\ pc = "started"

\* C2: when restore does not succeed (file absent, unreadable or
\* unparsable, or the client rejects the session), auth does not return the
\* restore failure and has made exactly one login call when it ends.
C2_RestoreFailureFallsBackToLogin ==
    /\ restoreResult \in RestoreFailures /\ AuthDone =>
          /\ loginCalls = 1
          /\ authResult \notin RestoreFailures
    /\ (fileAtStart = NoFile \/ CorruptAtStart) /\ AuthDone => loginCalls = 1

C2_Witness ==
    /\ restoreResult = "ErrRestore"
    /\ AuthDone
    /\ loginCalls = 1

\* C3: when the login call succeeds with a Matrix session and the session
\* file is written, auth returns Ok to start.
C3_LoginSuccessAuthenticates ==
    /\ loginResult = "ok"
    /\ clientSession.kind = "Matrix"
    /\ writeResult = "ok"
    /\ AuthDone
    => authResult = "Ok"

\* C4: when the login call fails, auth returns that error to start, which
\* fails; login is called once and restore is not called again.
C4_LoginFailureIsFinal ==
    loginResult = "err" =>
        /\ authResult = "ErrLogin"
        /\ loginCalls = 1
        /\ restoreCalls = 1
        /\ writeCalls = 0
        /\ pc \in {"auth_return", "failed"}

C4_Witness ==
    /\ loginResult = "err"
    /\ pc = "failed"

\* C5, as claimed: when the write of the session file fails after a
\* successful login, the process goes on authenticated and does not fail.
C5_WriteFailureKeepsAuthenticated ==
    writeResult = "err" =>
        /\ authResult \in {"pending", "Ok"}
        /\ pc # "failed"

\* C5, amended: when the write of the session file fails after a
\* successful login, auth returns the write error and start fails with it:
\* no handler is registered and no listener, controller or sync task is
\* spawned, although the client holds the session.
C5_WriteFailureFailsAuth ==
    writeResult = "err" =>
        /\ authResult = "ErrWrite"
        /\ pc \in {"auth_return", "failed"}
        /\ clientSession.kind = "Matrix"
        /\ ~handlers
        /\ \A l \in Listeners : lst[l] = "unspawned"
        /\ ctrl = "unspawned"
        /\ bg = "unspawned"

C5_Witness ==
    /\ writeResult = "err"
    /\ pc = "failed"

\* C6: when the login call succeeds and the client's session is not a
\* Matrix session, auth returns an error without another login call and
\* without writing the session file.
C6_WrongKindFailsFast ==
    loginResult = "ok" /\ clientSession.kind # "Matrix" /\ pc # "login_session" =>
        /\ authResult \in {"ErrNoSession", "ErrKind"}
        /\ loginCalls = 1
        /\ writeCalls = 0
        /\ file = fileAtStart
        /\ pc \in {"auth_return", "failed"}

C6_Witness ==
    /\ loginResult = "ok"
    /\ clientSession = AuthSessionOther
    /\ authResult = "ErrKind"
    /\ pc = "failed"

\* C7: after a login that wrote the session file, the file parses back to
\* the session the login obtained; the next run finds the file present and
\* parsable, and when the client accepts the session it authenticates with
\* that very session and without a login call.
C7_RoundTrip ==
    /\ writeResult = "ok" =>
          /\ file = to_string(clientSession.rec)
          /\ from_slice(file) = [ok |-> TRUE, session |-> clientSession.rec]
    /\ prevLogin # NoRec /\ restoreResult # "none" =>
          restoreResult \in {"Ok(true)", "ErrRead", "ErrRestore"}
    /\ prevLogin # NoRec /\ restoreResult = "Ok(true)" /\ pc # "auth_match" =>
          /\ authResult = "Ok"
          /\ loginCalls = 0
          /\ clientSession = AuthSessionMatrix(prevLogin)

C7_Witness ==
    /\ run = 2
    /\ prevLogin # NoRec
    /\ prevLogin.access_token = "tokB"
    /\ restoreResult = "Ok(true)"
    /\ authResult = "Ok"
    /\ loginCalls = 0

\* C8, as claimed: a run that starts with a corrupt session file ends with
\* the file as it found it.
C8_CorruptFileUntouched ==
    CorruptAtStart /\ AuthDone => file = fileAtStart

\* C8, amended: in a run that starts with a corrupt session file the file
\* is never deleted and stays as it was up to login's write, which happens
\* only after a successful login call with a Matrix session; a successful
\* write replaces it by the new session's record.
C8_CorruptFileOnlyReplacedByLogin ==
    CorruptAtStart =>
        /\ file # NoFile
        /\ writeCalls = 0 => file = fileAtStart
        /\ writeCalls > 0 => loginResult = "ok" /\ clientSession.kind = "Matrix"
        /\ writeResult = "ok" => file = to_string(clientSession.rec)

C8_Witness ==
    /\ CorruptAtStart
    /\ writeResult = "ok"
    /\ file # fileAtStart
    /\ AuthDone

\* C9: in a run the session file is written at most once, and only after
\* restore was attempted and failed and the login call then succeeded with
\* a Matrix session; without that write the file stays as the run found it.
C9_WriteOnlyAfterLogin ==
    /\ writeCalls <= 1
    /\ writeCalls = 1 =>
          /\ restoreCalls = 1
          /\ restoreResult \in RestoreFailures
          /\ loginCalls = 1
          /\ loginResult = "ok"
          /\ clientSession.kind = "Matrix"
    /\ writeCalls = 0 => file = fileAtStart

C9_Witness ==
    /\ writeCalls = 1
    /\ writeResult = "ok"
    /\ pc = "panicked"

\* How often event e is pending in the channel.
InChan(e) == Cardinality({i \in 1..Len(chan) : chan[i] = e})

\* Whether event e is held by a producer suspended in send.
Held(e) ==
    \/ e[1] \in Listeners /\ lst[e[1]] = "sending" /\ emitted[e[1]] = e[2]
    \/ e[1] \in Handlers /\ hpend = e[1] /\ emitted[e[1]] = e[2]
    \/ e[1] = "FatalMatrixErr" /\ bg = "sending"

\* Whether event e has been produced by its stream.
Produced(e) == e[2] <= emitted[e[1]]

\* No producer is suspended in send and nothing is pending.
Drained ==
    /\ chan = <<>>
    /\ hpend = "none"
    /\ bg # "sending"
    /\ \A l \in Listeners : lst[l] # "sending"

\* C10: under every interleaving and for both capacities, each event a
\* stream has produced is in exactly one place: held by its suspended
\* producer, pending in the channel, or received by the controller, once.
\* So once the channel is drained the controller has received every
\* produced event exactly once, as many as the streams produced.
C10_NoLossNoDuplication ==
    /\ \A e \in AllEvents :
          received[e] + InChan(e) + (IF Held(e) THEN 1 ELSE 0)
              = IF Produced(e) THEN 1 ELSE 0
    /\ Drained =>
          /\ \A e \in AllEvents : received[e] = IF Produced(e) THEN 1 ELSE 0
          /\ SumOver(received, AllEvents) = TotalEmitted

C10_Witness ==
    /\ capacity = SmallCapacity
    /\ TotalEmitted = MaxEvents
    /\ TotalEmitted > capacity
    /\ Cardinality({l \in Listeners : emitted[l] = MaxItems}) >= 2
    /\ Drained
    /\ SumOver(received, AllEvents) = MaxEvents


\* Whether producer kind p has stopped taking items: a listener task has
\* returned, an event handler is no longer registered.
Terminated(p) == IF p \in Listeners THEN lst[p] = "done" ELSE ~handlers

\* C11, as claimed: once the consuming end is closed, a producer of any
\* kind that takes another item is terminated by the failed hand-off.
C11_EveryKindStopsOnClosedChannel ==
    [][~RxAlive /\ ProcessAlive' =>
          \A p \in Listeners \cup Handlers :
              emitted'[p] # emitted[p] => Terminated(p)']_vars

\* C11, amended: once the consuming end is closed nothing is enqueued any
\* more and nothing panics; each spawned listener task returns at its next
\* step, having taken at most one more item (the one whose hand-off
\* fails), and the background sync task returns when its hand-off fails.
\* The two event handlers stay registered.
C11_ListenerTasksStopOnClosedChannel ==
    [][~RxAlive /\ ProcessAlive' =>
          /\ chan' = <<>>
          /\ pc' # "panicked"
          /\ handlers' = handlers
          /\ bg' # bg /\ bg # "unspawned" => bg' = "done"
          /\ \A l \in Listeners :
                lst[l] # "unspawned" /\ (lst'[l] # lst[l] \/ emitted'[l] # emitted[l]) =>
                    /\ lst'[l] = "done"
                    /\ emitted'[l] <= emitted[l] + 1]_vars

\* A listener task that returned although its stream had more to yield:
\* it was ended by the failed hand-off.
C11_Witness ==
    /\ ~RxAlive
    /\ \E l \in Listeners :
          /\ lst[l] = "done"
          /\ emitted[l] >= 1
          /\ HasNext(emitted[l])


FatalEvent == <<"FatalMatrixErr", 1>>

\* C12: when the background sync ends with an error, exactly one fatal
\* event is handed to the channel and the controller receives it; the task
\* then stays ended (the sync is not started again), and its steps end no
\* listener, handler or controller.
C12_FatalErrorReportedOnce ==
    /\ [](/\ emitted["FatalMatrixErr"] <= 1
          /\ bg \in {"unspawned", "running"} => emitted["FatalMatrixErr"] = 0
          /\ bg = "sending" =>
                /\ emitted["FatalMatrixErr"] = 1
                /\ InChan(FatalEvent) + received[FatalEvent] = 0
          /\ bg = "done" =>
                /\ emitted["FatalMatrixErr"] = 1
                /\ InChan(FatalEvent) + received[FatalEvent] = 1)
    /\ [][bg = "done" => bg' = "done"]_vars
    /\ [][bg # "unspawned" /\ bg' # bg =>
             /\ lst' = lst
             /\ handlers' = handlers
             /\ ctrl' = ctrl]_vars
    /\ (bg = "done" ~> received[FatalEvent] = 1)

\* The controller has received the fatal event while a listener still waits
\* on its stream.
C12_Witness ==
    /\ bg = "done"
    /\ received[FatalEvent] = 1
    /\ ctrl = "running"
    /\ \E l \in Listeners : lst[l] = "waiting"


\* C13: the channel is a FIFO merge. A successful hand-off appends its event
\* at the tail and the controller receives the event at the head, so events
\* are received in the order their hand-offs succeeded; the events of one
\* producer are pending in emission order, and the controller has received a
\* prefix of them, all earlier than those still pending.
C13_FifoMerge ==
    /\ [][received' # received /\ ProcessAlive' =>
             /\ chan # <<>>
             /\ received' = [received EXCEPT ![Head(chan)] = @ + 1]
             /\ chan' = Tail(chan)]_vars
    /\ [][chan' # chan /\ ProcessAlive' =>
             \/ chan # <<>> /\ chan' = Tail(chan)
             \/ \E e \in AllEvents : chan' = Append(chan, e)]_vars
    /\ [](\A i, j \in 1..Len(chan) :
             i < j /\ chan[i][1] = chan[j][1] => chan[i][2] < chan[j][2])
    /\ [](\A e \in AllEvents :
             received[e] >= 1 =>
                 /\ \A k \in 1..(e[2] - 1) : received[<<e[1], k>>] = 1
                 /\ \A i \in 1..Len(chan) : chan[i][1] = e[1] => chan[i][2] > e[2])

\* The controller has received two events of one listener and an event of
\* another producer between or around them, with more still pending.
C13_Witness ==
    /\ capacity = ChannelCapacity
    /\ chan # <<>>
    /\ \E l \in Listeners :
          /\ received[<<l, 1>>] = 1
          /\ received[<<l, 2>>] = 1
          /\ \E e \in AllEvents : e[1] # l /\ received[e] = 1


\* Whether producer p is suspended in a send.
Blocked(p) ==
    \/ p \in Listeners /\ lst[p] = "sending"
    \/ p \in Handlers /\ hpend = p
    \/ p = "FatalMatrixErr" /\ bg = "sending"

\* C14: the pending events never exceed the capacity. A producer suspended
\* in a send holds exactly the event it last took, which is neither pending
\* nor received; while the channel is full it stays suspended on it and
\* takes no further item, and when it leaves the send that same event has
\* been appended to the channel.
C14_BoundedBlockingChannel ==
    /\ [](Len(chan) <= capacity)
    /\ [](\A p \in Producers :
             Blocked(p) =>
                 /\ emitted[p] >= 1
                 /\ InChan(<<p, emitted[p]>>) = 0
                 /\ received[<<p, emitted[p]>>] = 0)
    /\ [][\A p \in Producers :
             Blocked(p) /\ ProcessAlive' =>
                 /\ emitted'[p] = emitted[p]
                 /\ Len(chan) = capacity => Blocked(p)'
                 /\ ~Blocked(p)' => chan' = Append(chan, <<p, emitted[p]>>)]_vars

\* The channel is full and a listener and a handler are each suspended in a
\* send.
C14_Witness ==
    /\ capacity = SmallCapacity
    /\ Len(chan) = capacity
    /\ \E l \in Listeners : Blocked(l)
    /\ \E h \in Handlers : Blocked(h)


\* The statements of App::setup_sync in program order, and App::start's
\* return after it.
SetupOrder ==
    <<"build_sync", "spawn_sync_state", "all_rooms", "spawn_room_list",
      "start_service", "sync_once", "spawn_bg", "started">>

InSetup(p) == \E i \in 1..Len(SetupOrder) : SetupOrder[i] = p

Position(p) == CHOOSE i \in 1..Len(SetupOrder) : SetupOrder[i] = p

\* C15: setup_sync is strictly ordered. Every step goes to the next
\* statement or fails, so each statement, the initial sync included, runs
\* at most once; when the sync service is started both the sync-state and
\* the room-list listener have been spawned; no handler is called before
\* the initial sync; and the background loop exists only after the initial
\* sync returned successfully.
C15_SetupSyncOrdered ==
    /\ [][pc' # pc /\ InSetup(pc) =>
             \/ pc' = "failed"
             \/ InSetup(pc') /\ Position(pc') = Position(pc) + 1]_vars
    /\ [][pc' # pc /\ InSetup(pc') /\ pc' # "build_sync" => InSetup(pc)]_vars
    /\ [](InSetup(pc) /\ Position(pc) >= Position("start_service") =>
             /\ lst["SyncServiceState"] # "unspawned"
             /\ lst["RoomDiff"] # "unspawned")
    /\ [](\A h \in Handlers :
             emitted[h] >= 1 =>
                 InSetup(pc) /\ Position(pc) >= Position("sync_once"))
    /\ [](bg # "unspawned" => pc = "started")
    /\ [][bg = "unspawned" /\ bg' # "unspawned" => pc = "spawn_bg"]_vars

\* setup_sync has returned: every listener is spawned, a sync has delivered
\* an event and the background loop runs.
C15_Witness ==
    /\ pc = "started"
    /\ bg = "running"
    /\ \E h \in Handlers : emitted[h] >= 1
    /\ \A l \in Listeners : lst[l] # "unspawned"


\* C16, as claimed: the controller is started only after authentication
\* succeeded and after the handlers are registered and the listeners of
\* every kind are started.
C16_ControllerAfterAllListeners ==
    ctrl # "unspawned" =>
        /\ authResult = "Ok"
        /\ handlers
        /\ \A l \in Listeners : lst[l] # "unspawned"

\* C16, amended: the controller is started only after authentication
\* succeeded, the event handlers are registered and the verification
\* listener is started; the sync-state and the room-list listener are
\* started only after the controller.
C16_ControllerAfterAuthAndRegistration ==
    /\ ctrl # "unspawned" =>
          /\ authResult = "Ok"
          /\ handlers
          /\ lst["VerificationState"] # "unspawned"
    /\ \A l \in {"SyncServiceState", "RoomDiff"} :
          lst[l] # "unspawned" => ctrl # "unspawned"

\* The controller runs and has received an event while neither the
\* sync-state nor the room-list listener has been started.
C16_Witness ==
    /\ ctrl = "running"
    /\ \E e \in AllEvents : received[e] = 1
    /\ lst["SyncServiceState"] = "unspawned"
    /\ lst["RoomDiff"] = "unspawned"


\* C17, as claimed: no failure after authentication is returned as an error
\* of start (start fails only when auth did), and no task panics.
C17_NoSynchronousFailureAfterAuth ==
    /\ pc = "failed" => authResult # "Ok"
    /\ pc = "panicked" => authResult # "Ok"

\* C17, amended: after a successful auth, start fails exactly at the build
\* of the sync service, at all_rooms or at the initial sync, whose errors it
\* returns, ending the process with no event of that failure in the
\* channel; the failure of the background loop happens after start has
\* returned and is the one that travels as an event; nothing panics.
C17_OnlyBackgroundFailureIsAnEvent ==
    /\ [][pc' = "failed" /\ pc # "failed" /\ authResult = "Ok" =>
             /\ pc \in {"build_sync", "all_rooms", "sync_once"}
             /\ emitted'["FatalMatrixErr"] = 0
             /\ chan' = <<>>]_vars
    /\ [](\A p \in {"build_sync", "all_rooms", "sync_once"} :
             pc = p /\ hpend = "none" => ENABLED (pc' = "failed" /\ Next))
    /\ [](emitted["FatalMatrixErr"] >= 1 => pc = "started" /\ bg # "running")
    /\ [](pc = "panicked" => authResult # "Ok")

\* start has returned the error of a failed step of setup_sync: the process
\* ended after a successful auth, the fatal event never sent.
C17_Witness ==
    /\ pc = "failed"
    /\ authResult = "Ok"
    /\ emitted["FatalMatrixErr"] = 0


\* C19: the controller owns a sender of its own channel, so while it runs
\* the senders are never empty and the receiver never goes away: with
\* nothing pending the controller waits instead of returning, and no
\* hand-off fails, so a listener returns only at the end of its stream.
C19_ControllerKeepsChannelOpen ==
    /\ RxAlive
    /\ ctrl = "running" => Senders >= 1
    /\ ctrl = "running" /\ chan = <<>> => ~ENABLED controller
    /\ \A l \in Listeners : lst[l] = "done" => ~HasNext(emitted[l])

\* Every listener and the background task have returned, nothing is
\* pending, and the controller still waits for events.
C19_Witness ==
    /\ pc = "started"
    /\ ctrl = "running"
    /\ chan = <<>>
    /\ bg = "done"
    /\ \A l \in Listeners : lst[l] = "done"


====
